---- MODULE Spec2Model ----
(***************************************************************************)
(* The interactive surface measurement engine of the CAD viewer:           *)
(* class MeasurementControls with its Marker / HoverMarker helpers         *)
(* (src/lib/types.ts, lines 75-468) as the STL viewer sets it up           *)
(* (src/app/components/viewers/StlViewer.tsx, lines 216-227).              *)
(*                                                                         *)
(* Numbers.  The code computes in IEEE doubles; the model computes in      *)
(* fixed point.  A point coordinate is an integer number of 1/10 model     *)
(* units, a normal is a vector of integers in units of 1/Scale, an angle   *)
(* is an integer number of milliradians.  The 0.01 offset that             *)
(* Marker.updatePosition adds along the normal is below the resolution of  *)
(* a point coordinate.                                                     *)
(*                                                                         *)
(* Optional values (T | null, T | undefined) are sequences of length at    *)
(* most one: None is null/undefined, Some(v) is the value v.               *)
(***************************************************************************)
EXTENDS Integers, Sequences, FiniteSets, TLC

VARIABLES
    measuring,        \* this.measuring
    markers,          \* this.markers: sequence of Marker
    hoverMarker,      \* this.hoverMarker: None or Some(HoverMarker)
    measurementLine,  \* this.measurementLine: None or Some(THREE.Line)
    scene,            \* this.scene.children: the set of objects in the scene
    matrixWorld,      \* world rotation of each model mesh (object.matrixWorld)
    emitted,          \* calls of this.onMeasurement made by the last operation
    peakMarkers,      \* largest this.markers.length during the last operation
    lastOp,           \* the last operation called, what its ray resolved to
                      \* (aim), and whether the ray met something nearer that
                      \* the operation passed over (behind)
    viewer            \* the StlViewer component around the session: its
                      \* measuringActive and where its listeners are attached

vars == <<measuring, markers, hoverMarker, measurementLine, scene,
          matrixWorld, emitted, peakMarkers, lastOp, viewer>>

None == <<>>
Some(v) == <<v>>

\* Fixed-point unit of normals (a unit normal has length Scale).
Scale == 10 * 10 * 10
\* Math.PI and the parallelism tolerance 0.01, in milliradians.
Pi == 3142
Eps == 10
HalfPi == Pi \div 2
QuarterPi == Pi \div 4

\* Largest number of hover-marker visuals left behind in the scene.
MaxOrphans == 1

-----------------------------------------------------------------------------
(* Vector arithmetic of THREE.Vector3 / THREE.Plane (library code).        *)

Abs(x) == IF x < 0 THEN -x ELSE x

Dot(a, b) == a[1] * b[1] + a[2] * b[2] + a[3] * b[3]

Sub(a, b) == <<a[1] - b[1], a[2] - b[2], a[3] - b[3]>>

LengthSq(a) == Dot(a, a)

\* The cross product of two normals, scaled back to units of 1/Scale.
CrossScaled(a, b) ==
    << (a[2] * b[3] - a[3] * b[2]) \div Scale,
       (a[3] * b[1] - a[1] * b[3]) \div Scale,
       (a[1] * b[2] - a[2] * b[1]) \div Scale >>

RECURSIVE SqrtSearch(_, _, _)
SqrtSearch(n, lo, hi) ==
    IF lo >= hi THEN lo
    ELSE LET mid == (lo + hi + 1) \div 2
         IN  IF mid * mid <= n THEN SqrtSearch(n, mid, hi)
             ELSE SqrtSearch(n, lo, mid - 1)

\* Math.sqrt, rounded down.
ISqrt(n) == SqrtSearch(n, 0, 40000)

\* The length of the second point taken for the distance between the two.
DistanceToOrigin(p, q) == ISqrt(LengthSq(q))

\* Vector3.distanceTo
DistanceTo(p, q) == ISqrt(LengthSq(Sub(p, q)))

\* arctan of t/Scale for |t| <= 0.415 Scale, in milliradians (Taylor series).
ATanSmall(t) ==
    LET t2 == (t * t) \div Scale
        t3 == (t2 * t) \div Scale
        t5 == (t3 * t2) \div Scale
        t7 == (t5 * t2) \div Scale
    IN  t - t3 \div 3 + t5 \div 5 - t7 \div 7

\* arctan of t/Scale for 0 <= t <= Scale: atan t = pi/4 + atan((t-1)/(t+1)).
ATanUnit(t) ==
    IF 1000 * t <= 414 * Scale THEN ATanSmall(t)
    ELSE QuarterPi + ATanSmall(((t - Scale) * Scale) \div (t + Scale))

\* The angle in [0, Pi] of the direction (x, y) with y >= 0.
ATan2(y, x) ==
    IF x = 0 THEN (IF y = 0 THEN 0 ELSE HalfPi)
    ELSE IF x > 0
         THEN IF y <= x THEN ATanUnit((y * Scale) \div x)
              ELSE HalfPi - ATanUnit((x * Scale) \div y)
         ELSE IF y <= -x THEN Pi - ATanUnit((y * Scale) \div (-x))
              ELSE HalfPi + ATanUnit(((-x) * Scale) \div y)

\* Stands for NaN: no angle in [0, Pi] and no distance.
NotANumber == 0 - 1

\* angleTo without the clamp of the cosine to [-1, 1]: a cosine that rounding
\* pushes past 1 has no arc cosine.
AngleToNoClamp(a, b) ==
    IF LengthSq(a) = 0 \/ LengthSq(b) = 0 THEN HalfPi
    ELSE IF Abs(Dot(a, b)) > ISqrt(LengthSq(a)) * ISqrt(LengthSq(b))
         THEN NotANumber
         ELSE ATan2(ISqrt(LengthSq(CrossScaled(a, b))), Dot(a, b) \div Scale)

(***************************************************************************)
(* Vector3.angleTo: PI/2 when either vector is zero, else                  *)
(* acos(clamp(dot / sqrt(lengthSq * lengthSq), -1, 1)).  acos(d/den) is    *)
(* evaluated as atan2(sqrt(den^2 - d^2), d) with den^2 - d^2 = |a x b|^2,  *)
(* which keeps milliradian resolution near 0 and near Pi.                  *)
(***************************************************************************)
AngleTo(a, b) ==
    IF LengthSq(a) = 0 \/ LengthSq(b) = 0 THEN HalfPi
    ELSE ATan2(ISqrt(LengthSq(CrossScaled(a, b))), Dot(a, b) \div Scale)

\* The plane taken through the origin instead of through the point.
PlaneThroughOriginDistanceToPoint(normal, point, q) ==
    Dot(normal, q) \div Scale

\* Plane.setFromNormalAndCoplanarPoint(normal, point).distanceToPoint(q)
PlaneDistanceToPoint(normal, point, q) ==
    (Dot(normal, q) - Dot(normal, point)) \div Scale

\* Matrix4.extractRotation(matrixWorld) applied to a vector: the model's
\* world rotations are quarter turns about the z axis.
Rotations == {0, 1}
ApplyRotation(v, r) == IF r = 0 THEN v ELSE <<-v[2], v[1], v[3]>>

-----------------------------------------------------------------------------
(* The scene the session is given, and what a ray can meet in it.          *)

Mesh(i) == [kind |-> "mesh", id |-> i]
\* The meshes of the loaded model.
Meshes == {Mesh(1), Mesh(2)}
\* A THREE.Line child of mesh 1: raycast with it, but its hits have no face.
Edges == [kind |-> "edges", id |-> 1]
\* A helper (grid, axes) of the surrounding scene: in the scene, not a mesh.
Grid == [kind |-> "helper", id |-> 0]
\* The object of the dummy intersection start() builds.
DummyObject == [kind |-> "dummy", id |-> 0]

ExternalObjects == Meshes \cup {Grid}

\* Object3D.children, recursively (intersectObjects(..., recursive = true)).
Descendants(o) == IF o = Mesh(1) THEN {o, Edges} ELSE {o}

Hit(p, n, o, f) == [point |-> p, normal |-> n, object |-> o, face |-> f]

\* Intersections with faces of the model, face normals in object space.
MeshFaceHits ==
    { Hit(<<0, 0, 0>>,     <<-1000, 0, 0>>,  Mesh(1), TRUE),
      Hit(<<100, 30, 0>>,  <<1000, 0, 0>>,   Mesh(1), TRUE),
      Hit(<<50, 50, 0>>,   <<0, 1000, 0>>,   Mesh(1), TRUE),
      Hit(<<100, 0, 40>>,  <<1000, 5, 0>>,   Mesh(2), TRUE),
      Hit(<<0, 30, 40>>,   <<1000, 20, 0>>,  Mesh(2), TRUE) }

\* Intersections without face data (THREE.Line objects).
EdgeHit == Hit(<<0, 0, 0>>, <<0, 0, 0>>, Edges, FALSE)
GridHit == Hit(<<0, -50, 0>>, <<0, 0, 0>>, Grid, FALSE)

\* The pickable lists a caller passes to onClick (meshesRef.current is
\* empty until the model is loaded).
PickableLists == {{}, Meshes}

-----------------------------------------------------------------------------
(* Marker, HoverMarker and the objects the session creates.                *)

SessionObject(k, i) == [kind |-> k, id |-> i]

\* A new THREE.Object3D of kind k: an object distinct from all those in sc.
NewObject(k, sc) ==
    SessionObject(k, CHOOSE n \in 1..(Cardinality(sc) + 1) :
                        /\ SessionObject(k, n) \notin sc
                        /\ \A m \in 1..(n - 1) : SessionObject(k, m) \in sc)

\* new Marker(intersection, radius)
NewMarker(intersection, sc) ==
    [obj |-> NewObject("marker", sc), intersection |-> intersection]

\* new HoverMarker(intersection, radius): visible when constructed.
NewHoverMarker(intersection, sc) ==
    [obj |-> NewObject("hover", sc), intersection |-> intersection,
     visible |-> TRUE]

\* The dummy intersection start() gives the hover marker.
DummyIntersection == Hit(<<0, 0, 0>>, <<0, 1000, 0>>, DummyObject, TRUE)

\* Marker.getFaceNormal: the face normal under the hit object's current world
\* rotation; (0, 1, 0) without a face.
GetFaceNormal(intersection) ==
    IF ~intersection.face THEN <<0, 1000, 0>>
    ELSE IF intersection.object \in Meshes
         THEN ApplyRotation(intersection.normal,
                            matrixWorld[intersection.object.id])
         ELSE intersection.normal

\* HoverMarker.update without the else branch of line 211.
HoverUpdateNeverHides(hm, intersection) ==
    IF intersection # None /\ intersection[1].face
    THEN [hm EXCEPT !.visible = TRUE, !.intersection = intersection[1]]
    ELSE hm

\* HoverMarker.update(intersection)
HoverUpdate(hm, intersection) ==
    IF intersection # None /\ intersection[1].face
    THEN [hm EXCEPT !.visible = TRUE, !.intersection = intersection[1]]
    ELSE [hm EXCEPT !.visible = FALSE]

-----------------------------------------------------------------------------
(* The MeasurementControls object.  An operation is a function from the    *)
(* object's fields before the call to its fields after it; s.emitted       *)
(* collects the readouts handed to onMeasurement during the call.          *)

displayUnit == "mm"
NoMessage == "undefined"

Max(a, b) == IF a > b THEN a ELSE b

Values(d, p, a, m) ==
    [pointsDistance |-> d, parallelFacesDistance |-> p, facesAngle |-> a,
     unit |-> displayUnit, message |-> m]

Prompt(m) == Values(None, None, None, m)

\* updateMeasurementInfo(values), with onMeasurement set as the viewer sets
\* it: the callback sees the session as it is at this moment.
UpdateMeasurementInfo(s, values) ==
    [s EXCEPT !.emitted =
        Append(@, [values |-> values, count |-> Len(s.markers)])]

\* IsParallel with the anti-parallel case forgotten.
IsParallelSameDirectionOnly(angle) == Abs(angle) < Eps

\* The test of line 298 for parallel or anti-parallel faces.
IsParallel(angle) == Abs(angle) < Eps \/ Abs(angle - Pi) < Eps

\* calculateMeasurements() without the face check of line 270.
CalculateMeasurementsNoFaceCheck(s) ==
    IF Len(s.markers) # 2
    THEN Prompt(IF Len(s.markers) = 0 THEN "Select a point"
                ELSE "Select another point")
    ELSE LET intersection1 == s.markers[1].intersection
             intersection2 == s.markers[2].intersection
             point1 == intersection1.point
             point2 == intersection2.point
             normal1 == GetFaceNormal(intersection1)
             normal2 == GetFaceNormal(intersection2)
             angle == AngleTo(normal1, normal2)
         IN  Values(Some(DistanceTo(point1, point2)),
                    IF IsParallel(angle)
                    THEN Some(Abs(PlaneDistanceToPoint(normal1, point1, point2)))
                    ELSE None,
                    Some(angle), NoMessage)

\* calculateMeasurements()
CalculateMeasurements(s) ==
    IF Len(s.markers) # 2
    THEN Prompt(IF Len(s.markers) = 0 THEN "Select a point"
                ELSE "Select another point")
    ELSE LET intersection1 == s.markers[1].intersection
             intersection2 == s.markers[2].intersection
         IN  IF ~intersection1.face \/ ~intersection2.face
             THEN Prompt("Invalid measurement")
             ELSE LET point1 == intersection1.point
                      point2 == intersection2.point
                      distance == DistanceTo(point1, point2)
                      normal1 == GetFaceNormal(intersection1)
                      normal2 == GetFaceNormal(intersection2)
                      angle == AngleTo(normal1, normal2)
                      parallelDistance ==
                          IF IsParallel(angle)
                          THEN Some(Abs(PlaneDistanceToPoint(normal1, point1,
                                                             point2)))
                          ELSE None
                  IN  Values(Some(distance), parallelDistance, Some(angle),
                             NoMessage)

\* updateMeasurementLine(): the old line leaves the scene but stays in the
\* field unless a new one replaces it.
UpdateMeasurementLine(s) ==
    LET removed == IF s.measurementLine # None
                   THEN s.scene \ {s.measurementLine[1].obj}
                   ELSE s.scene
    IN  IF Len(s.markers) = 2
        THEN LET line == [obj |-> NewObject("line", removed),
                          from |-> s.markers[1].intersection.point,
                          to |-> s.markers[2].intersection.point]
             IN  [s EXCEPT !.measurementLine = Some(line),
                           !.scene = removed \cup {line.obj}]
        ELSE [s EXCEPT !.scene = removed]

\* clear() dropping the markers and the line without removing their objects
\* from the scene.
ClearForgetsVisuals(s) ==
    [s EXCEPT !.measurementLine = None, !.markers = <<>>]

\* clear()
Clear(s) ==
    LET noLine == IF s.measurementLine # None
                  THEN s.scene \ {s.measurementLine[1].obj}
                  ELSE s.scene
    IN  [s EXCEPT !.measurementLine = None,
                  !.scene = noLine \ {s.markers[i].obj : i \in 1..Len(s.markers)},
                  !.markers = <<>>]

\* start() without the clear() of line 335.
StartCallKeepsMarkers(s) ==
    LET s1 == [s EXCEPT !.measuring = TRUE]
        hm == NewHoverMarker(DummyIntersection, s1.scene)
        s2 == [s1 EXCEPT !.hoverMarker = Some(hm),
                         !.scene = @ \cup {hm.obj}]
    IN  UpdateMeasurementInfo(s2, Prompt("Select a point"))

\* start() sending its prompt before the clear() of line 335.
StartCallPromptFirst(s) ==
    LET s1 == UpdateMeasurementInfo([s EXCEPT !.measuring = TRUE],
                                    Prompt("Select a point"))
        s2 == Clear(s1)
        hm == NewHoverMarker(DummyIntersection, s2.scene)
    IN  [s2 EXCEPT !.hoverMarker = Some(hm),
                   !.scene = @ \cup {hm.obj}]

\* start()
StartCall(s) ==
    LET s1 == Clear([s EXCEPT !.measuring = TRUE])
        hm == NewHoverMarker(DummyIntersection, s1.scene)
        s2 == [s1 EXCEPT !.hoverMarker = Some(hm),
                         !.scene = @ \cup {hm.obj}]
    IN  UpdateMeasurementInfo(s2, Prompt("Select a point"))

\* stop() without the clear() of line 363.
StopCallKeepsMarkers(s) ==
    LET s1 == [s EXCEPT !.measuring = FALSE]
    IN  IF s1.hoverMarker # None
        THEN [s1 EXCEPT !.scene = @ \ {s1.hoverMarker[1].obj},
                        !.hoverMarker = None]
        ELSE s1

\* stop()
StopCall(s) ==
    LET s1 == Clear([s EXCEPT !.measuring = FALSE])
    IN  IF s1.hoverMarker # None
        THEN [s1 EXCEPT !.scene = @ \ {s1.hoverMarker[1].obj},
                        !.hoverMarker = None]
        ELSE s1

\* Raycaster.intersectObjects(objects, true) for the ray of the pointer: the
\* ray's intersections, nearest first, with the objects and their children.
IntersectObjects(ray, objects) ==
    SelectSeq(ray, LAMBDA h : \E o \in objects : h.object \in Descendants(o))

\* The filter letting every intersection through.
FilterFaceKeepsAll(intersects) == intersects

\* .filter(intersect => intersect.face)
FilterFace(intersects) == SelectSeq(intersects, LAMBDA h : h.face)

\* intersects.length > 0 ? intersects[0] : null
First(intersects) == IF Len(intersects) > 0 THEN Some(intersects[1]) ELSE None

\* What onMouseMove resolves the ray to.
HoverPick(s, ray) == First(FilterFace(IntersectObjects(ray, s.scene)))

\* What onClick resolves the ray to.
ClickPick(ray, meshes) == First(FilterFace(IntersectObjects(ray, meshes)))

\* onMouseMove(event, domElement)
OnMouseMoveCall(s, ray) ==
    IF ~s.measuring THEN s
    ELSE IF s.hoverMarker # None
         THEN [s EXCEPT !.hoverMarker =
                  Some(HoverUpdate(s.hoverMarker[1], HoverPick(s, ray)))]
         ELSE s

\* AfterClick without the clear() of line 445.
AfterClickNoClear(s) ==
    IF Len(s.markers) = 1
    THEN UpdateMeasurementInfo(s, Prompt("Select another point"))
    ELSE IF Len(s.markers) = 2
         THEN UpdateMeasurementInfo(s, CalculateMeasurements(s))
         ELSE UpdateMeasurementInfo(s, Prompt("Select a point"))

\* AfterClick keeping the third hit as the first point of a new pair.
AfterClickRestartsPair(s) ==
    IF Len(s.markers) = 1
    THEN UpdateMeasurementInfo(s, Prompt("Select another point"))
    ELSE IF Len(s.markers) = 2
         THEN UpdateMeasurementInfo(s, CalculateMeasurements(s))
         ELSE LET third == s.markers[3]
                  s1 == Clear(s)
                  s2 == [s1 EXCEPT !.markers = <<third>>,
                                   !.scene = @ \cup {third.obj}]
              IN  UpdateMeasurementInfo(s2, Prompt("Select another point"))

\* AfterClick with the prompts of the first and the third click exchanged.
AfterClickWrongPrompt(s) ==
    IF Len(s.markers) = 1
    THEN UpdateMeasurementInfo(s, Prompt("Select a point"))
    ELSE IF Len(s.markers) = 2
         THEN UpdateMeasurementInfo(s, CalculateMeasurements(s))
         ELSE UpdateMeasurementInfo(Clear(s), Prompt("Select another point"))

\* The branch of onClick on the number of markers (lines 432-453).
AfterClick(s) ==
    IF Len(s.markers) = 1
    THEN UpdateMeasurementInfo(s, Prompt("Select another point"))
    ELSE IF Len(s.markers) = 2
         THEN UpdateMeasurementInfo(s, CalculateMeasurements(s))
         ELSE IF Len(s.markers) > 2
              THEN UpdateMeasurementInfo(Clear(s), Prompt("Select a point"))
              ELSE s

\* this.markers.push(marker); this.scene.add(marker.getObject())
AddMarker(s, intersection) ==
    LET marker == NewMarker(intersection, s.scene)
    IN  [s EXCEPT !.markers = Append(@, marker),
                  !.scene = @ \cup {marker.obj},
                  !.peakMarkers = Max(@, Len(s.markers) + 1)]

\* onClick without the face filter of line 414.
OnClickCallNoFaceFilter(s, ray, meshes) ==
    IF ~s.measuring THEN s
    ELSE LET intersects == IntersectObjects(ray, meshes)
         IN  IF Len(intersects) > 0
             THEN AfterClick(UpdateMeasurementLine(AddMarker(s, intersects[1])))
             ELSE s

\* onClick clearing the measurement when the click meets nothing.
OnClickCallMissClears(s, ray, meshes) ==
    IF ~s.measuring THEN s
    ELSE LET intersects == FilterFace(IntersectObjects(ray, meshes))
         IN  IF Len(intersects) > 0
             THEN AfterClick(UpdateMeasurementLine(AddMarker(s, intersects[1])))
             ELSE Clear(s)

\* onClick without the guard of line 403.
OnClickCallNoGuard(s, ray, meshes) ==
    LET intersects == FilterFace(IntersectObjects(ray, meshes))
    IN  IF Len(intersects) > 0
        THEN AfterClick(UpdateMeasurementLine(AddMarker(s, intersects[1])))
        ELSE s

\* onClick raycasting the whole scene, as onMouseMove does at line 394.
OnClickCallWholeScene(s, ray, meshes) ==
    IF ~s.measuring THEN s
    ELSE LET intersects == FilterFace(IntersectObjects(ray, s.scene))
         IN  IF Len(intersects) > 0
             THEN AfterClick(UpdateMeasurementLine(AddMarker(s, intersects[1])))
             ELSE s

\* onClick confirming the point the hover marker shows instead of resolving
\* its own ray.
OnClickCallAtHover(s, ray, meshes) ==
    IF ~s.measuring THEN s
    ELSE LET intersects ==
                 IF s.hoverMarker # None /\ s.hoverMarker[1].visible
                 THEN <<s.hoverMarker[1].intersection>>
                 ELSE FilterFace(IntersectObjects(ray, meshes))
         IN  IF Len(intersects) > 0
             THEN AfterClick(UpdateMeasurementLine(AddMarker(s, intersects[1])))
             ELSE s

\* onClick(event, domElement, meshes)
OnClickCall(s, ray, meshes) ==
    IF ~s.measuring THEN s
    ELSE LET intersects == FilterFace(IntersectObjects(ray, meshes))
         IN  IF Len(intersects) > 0
             THEN AfterClick(UpdateMeasurementLine(AddMarker(s, intersects[1])))
             ELSE s

\* update() without the test of line 460.
UpdateCallAlways(s) ==
    IF ~s.measuring THEN s
    ELSE UpdateMeasurementInfo(s, CalculateMeasurements(s))

\* update()
UpdateCall(s) ==
    IF ~s.measuring THEN s
    ELSE IF Len(s.markers) = 2
         THEN UpdateMeasurementInfo(s, CalculateMeasurements(s))
         ELSE s

\* The fields of a session as its constructor leaves them.
NewSession ==
    [measuring |-> FALSE, markers |-> <<>>, hoverMarker |-> None,
     measurementLine |-> None, scene |-> ExternalObjects,
     emitted |-> <<>>, peakMarkers |-> 0]

\* The fields of a session at the start of its next call.
NextCall(s) == [s EXCEPT !.emitted = <<>>, !.peakMarkers = Len(s.markers)]

\* A run of its own: a new session is started and the pointer clicks on
\* hit a, then on hit b, of the model.
ClickPair(a, b) ==
    LET s0 == StartCall(NewSession)
        s1 == OnClickCall(NextCall(s0), <<a>>, Meshes)
    IN  OnClickCall(NextCall(s1), <<b>>, Meshes)

-----------------------------------------------------------------------------
(* The state machine: one action per public operation.                     *)

\* The object's fields at the start of a call.
This ==
    [measuring |-> measuring, markers |-> markers, hoverMarker |-> hoverMarker,
     measurementLine |-> measurementLine, scene |-> scene,
     emitted |-> <<>>, peakMarkers |-> Len(markers)]

\* The pick is not the nearest intersection of the ray.
Behind(ray, pick) == pick # None /\ ray[1] # pick[1]

\* The session used on its own, outside a viewer component.
NoViewer == [measuringActive |-> FALSE, listeners |-> "none"]

\* The object's fields after a call.
Return(s, op, aim, behind) ==
    /\ measuring' = s.measuring
    /\ markers' = s.markers
    /\ hoverMarker' = s.hoverMarker
    /\ measurementLine' = s.measurementLine
    /\ scene' = s.scene
    /\ emitted' = s.emitted
    /\ peakMarkers' = s.peakMarkers
    /\ lastOp' = [op |-> op, aim |-> aim, behind |-> behind]
    /\ UNCHANGED <<matrixWorld, viewer>>

\* The hover-marker visuals in the scene that the session no longer holds.
Orphans ==
    {o \in scene : o.kind = "hover"
                   /\ (hoverMarker = None \/ hoverMarker[1].obj # o)}

\* The disc of a marker the session holds, as a ray meets it: a mesh with
\* face data, at the marker's point, facing along the marker's normal.
DiscHit(m) ==
    Hit(m.intersection.point, GetFaceNormal(m.intersection), m.obj, TRUE)

\* What a pointer ray can meet in front of the model: lines, helpers and the
\* discs of the markers the session holds.
Obstacles ==
    {EdgeHit, GridHit}
    \cup {DiscHit(markers[i]) : i \in 1..Len(markers)}
    \cup (IF hoverMarker # None THEN {DiscHit(hoverMarker[1])} ELSE {})
    \cup (IF measurementLine # None
          THEN {Hit(measurementLine[1].from, <<0, 0, 0>>,
                    measurementLine[1].obj, FALSE)}
          ELSE {})

\* The pointer rays: the intersections of a ray, nearest first.  A ray meets
\* nothing, one thing, or an obstacle with a face of the model behind it.
Rays ==
    {<<>>} \cup {<<a>> : a \in Obstacles \cup MeshFaceHits}
    \cup {<<a, b>> : a \in Obstacles, b \in MeshFaceHits}

Init ==
    /\ measuring = FALSE
    /\ markers = <<>>
    /\ hoverMarker = None
    /\ measurementLine = None
    /\ scene = ExternalObjects
    /\ matrixWorld = [i \in {1, 2} |-> 0]
    /\ emitted = <<>>
    /\ peakMarkers = 0
    /\ lastOp = [op |-> "new", aim |-> None, behind |-> FALSE]
    /\ viewer = NoViewer

Start ==
    /\ hoverMarker = None \/ Cardinality(Orphans) < MaxOrphans
    /\ Return(StartCall(This), "start", None, FALSE)

Stop == Return(StopCall(This), "stop", None, FALSE)

ClearMarkers == Return(Clear(This), "clear", None, FALSE)

OnMouseMove ==
    \E ray \in Rays :
        Return(OnMouseMoveCall(This, ray), "onMouseMove", HoverPick(This, ray),
               Behind(ray, HoverPick(This, ray)))

OnClick ==
    \E ray \in Rays, meshes \in PickableLists :
        Return(OnClickCall(This, ray, meshes), "onClick", ClickPick(ray, meshes),
               Behind(ray, ClickPick(ray, meshes)))

Update == Return(UpdateCall(This), "update", None, FALSE)

\* One frame of the STL viewer's loop: requestAnimationFrame(animate),
\* controls.update() of the orbit controls, renderer.render(scene, camera).
\* No statement of the frame calls into the session.
Animate == Return(This, "animate", None, FALSE)

\* The surrounding application turns a model mesh by a quarter turn.
RotateMesh ==
    \E i \in {2} :
        /\ matrixWorld' = [matrixWorld EXCEPT ![i] = 1 - @]
        /\ UNCHANGED <<measuring, markers, hoverMarker, measurementLine, scene,
                       emitted, peakMarkers, lastOp, viewer>>

Next ==
    \/ Start
    \/ Stop
    \/ ClearMarkers
    \/ OnMouseMove
    \/ OnClick
    \/ Update

Spec == Init /\ [][Next]_vars

\* The session inside the STL viewer, whose loop renders frames between
\* the calls.
NextViewer == Next \/ Animate

SpecViewer == Init /\ [][NextViewer]_vars

\* The session in a scene whose model the application also turns.
NextTurning ==
    \/ Next
    \/ RotateMesh

SpecTurning == Init /\ [][NextTurning]_vars

(***************************************************************************)
(* calculateMeasurements() on markers without face data.  onClick never    *)
(* confirms such a marker, so these states are the inputs of the check of  *)
(* line 270 rather than states the public operations reach: an active      *)
(* session holding two markers of which at least one has no face.          *)
(***************************************************************************)
FacelessHits ==
    { EdgeHit, Hit(<<100, 0, 40>>, <<0, 0, 0>>, Mesh(2), FALSE) }

DegeneratePairs ==
    {p \in (MeshFaceHits \cup FacelessHits) \X (MeshFaceHits \cup FacelessHits) :
        ~p[1].face \/ ~p[2].face}

InitDegenerate ==
    \E p \in DegeneratePairs :
        LET m1 == NewMarker(p[1], ExternalObjects)
            m2 == NewMarker(p[2], ExternalObjects \cup {m1.obj})
            line == [obj |-> NewObject("line", ExternalObjects),
                     from |-> p[1].point, to |-> p[2].point]
            hm == NewHoverMarker(DummyIntersection, ExternalObjects)
        IN  /\ measuring = TRUE
            /\ markers = <<m1, m2>>
            /\ hoverMarker = Some(hm)
            /\ measurementLine = Some(line)
            /\ scene = ExternalObjects \cup {m1.obj, m2.obj, line.obj, hm.obj}
            /\ matrixWorld = [i \in {1, 2} |-> 0]
            /\ emitted = <<>>
            /\ peakMarkers = 2
            /\ lastOp = [op |-> "new", aim |-> None, behind |-> FALSE]
            /\ viewer = NoViewer

SpecDegenerate == InitDegenerate /\ [][Next]_vars

\* radians * 180 / Math.PI, in tenths of a degree.
ToDegrees(angle) == (angle * 1800) \div Pi

\* x || undefined and x ? f(x) : undefined: null, undefined, 0 and NaN are
\* falsy.
Truthy(x) == x # None /\ x[1] # 0 /\ x[1] # NotANumber

\* The update the StlViewer's onMeasurement callback hands to
\* onMeasurementUpdate for a readout of the session.
ForwardedUpdate(data) ==
    [length |-> IF Truthy(data.pointsDistance) THEN data.pointsDistance ELSE None,
     angle |-> IF Truthy(data.facesAngle)
               THEN Some(ToDegrees(data.facesAngle[1]))
               ELSE None,
     message |-> data.message]

(***************************************************************************)
(* The session inside the StlViewer component, as FileViewer renders it.   *)
(* FileViewer builds handleMeasurementUpdate anew on every render, so      *)
(* every render of the parent changes the dependency onMeasurementUpdate   *)
(* of the scene effect: its cleanup runs and it builds a new scene,        *)
(* renderer and MeasurementControls.  The listener effect and the          *)
(* start/stop effect depend on measuringActive alone.  The model is taken  *)
(* as loaded when the scene is built.                                      *)
(***************************************************************************)

\* The session's fields become s, by the component and not by a call the
\* model's actions make on their own.
SessionBecomes(s, op) ==
    /\ measuring' = s.measuring
    /\ markers' = s.markers
    /\ hoverMarker' = s.hoverMarker
    /\ measurementLine' = s.measurementLine
    /\ scene' = s.scene
    /\ emitted' = s.emitted
    /\ peakMarkers' = s.peakMarkers
    /\ lastOp' = [op |-> op, aim |-> None, behind |-> FALSE]
    /\ UNCHANGED matrixWorld

\* The mount: the scene effect builds the session, the listener effect
\* attaches to the renderer's canvas, the start/stop effect calls stop().
InitStlViewer ==
    /\ measuring = FALSE
    /\ markers = <<>>
    /\ hoverMarker = None
    /\ measurementLine = None
    /\ scene = ExternalObjects
    /\ matrixWorld = [i \in {1, 2} |-> 0]
    /\ emitted = <<>>
    /\ peakMarkers = 0
    /\ lastOp = [op |-> "stop", aim |-> None, behind |-> FALSE]
    /\ viewer = [measuringActive |-> FALSE, listeners |-> "current"]

\* FileViewer.toggleMeasuring: setIsMeasuring(!isMeasuring) renders the
\* parent.  All three effects run, in order: a new session is built, the
\* listeners move to the new canvas, and start() or stop() is called on the
\* new session.
ToggleMeasuring ==
    LET on == ~viewer.measuringActive
    IN  /\ viewer' = [measuringActive |-> on, listeners |-> "current"]
        /\ IF on
           THEN SessionBecomes(StartCall(NewSession), "start")
           ELSE SessionBecomes(StopCall(NewSession), "stop")

\* A render of FileViewer that leaves isMeasuring as it is (setIsCapturing
\* in handleCaptureView): only the scene effect runs.  The new session is
\* not started, and the listeners stay on the canvas the cleanup removed.
ParentRerender ==
    /\ viewer' = [viewer EXCEPT !.listeners = "stale"]
    /\ SessionBecomes(NewSession, "new")

\* handleMouseMove, on the canvas the listeners are attached to.
ViewerMouseMove ==
    /\ viewer.measuringActive
    /\ viewer.listeners = "current"
    /\ OnMouseMove

\* handleClick, on the canvas the listeners are attached to.
ViewerClick ==
    /\ viewer.measuringActive
    /\ viewer.listeners = "current"
    /\ OnClick

NextStlViewer ==
    \/ ToggleMeasuring
    \/ ParentRerender
    \/ ViewerMouseMove
    \/ ViewerClick
    \/ Animate

SpecStlViewer == InitStlViewer /\ [][NextStlViewer]_vars

-----------------------------------------------------------------------------
(* Properties of the session.                                              *)

SelectAPoint == [values |-> Prompt("Select a point"), count |-> 0]
SelectAnotherPoint == [values |-> Prompt("Select another point"), count |-> 1]

\* A readout carrying a computed measurement.
IsMeasurement(v) ==
    /\ v.pointsDistance # None
    /\ v.facesAngle # None
    /\ v.message = NoMessage

\* The last operation was a click whose ray resolved to a hit.  (In a call
\* that adds no marker, peakMarkers is the marker count at its start.)
ClickedHit == lastOp.op = "onClick" /\ lastOp.aim # None

\* C1: between calls and at every invocation of the readout callback the
\* number of confirmed markers is 0, 1 or 2.
C1_MarkerCountAtMostTwo ==
    /\ Len(markers) \in {0, 1, 2}
    /\ \A i \in 1..Len(emitted) : emitted[i].count \in {0, 1, 2}

\* A third click has just been consumed: the callback ran with no marker left.
C1_Witness ==
    /\ ClickedHit
    /\ peakMarkers = 3
    /\ Len(emitted) = 1
    /\ emitted[1].count = 0

\* C2: a click that resolves a hit while 2 markers are confirmed leaves the
\* session active with no confirmed marker and emits the prompt
\* "Select a point" alone.
C2_ThirdClickReturnsToEmpty ==
    [][(measuring /\ Len(markers) = 2 /\ ClickedHit')
        => /\ markers' = <<>>
           /\ measuring'
           /\ emitted' = <<SelectAPoint>>]_vars

C2_Witness ==
    /\ ClickedHit
    /\ peakMarkers = 3
    /\ measuring
    /\ markers = <<>>

\* C3: a click that resolves a hit while 1 marker is confirmed appends the
\* hit as the second marker and emits one readout, a computed measurement.
C3_SecondClickMeasures ==
    [][(measuring /\ Len(markers) = 1 /\ ClickedHit')
        => /\ Len(markers') = 2
           /\ markers'[1] = markers[1]
           /\ markers'[2].intersection = lastOp'.aim[1]
           /\ Len(emitted') = 1
           /\ IsMeasurement(emitted'[1].values)
           /\ emitted'[1].count = 2]_vars

C3_Witness ==
    /\ ClickedHit
    /\ Len(markers) = 2
    /\ markers[2].intersection = lastOp.aim[1]
    /\ Len(emitted) = 1
    /\ IsMeasurement(emitted[1].values)

\* C4: a click that resolves a hit while no marker is confirmed appends the
\* hit as the first marker and emits one readout, the prompt
\* "Select another point" with every numeric field absent.
C4_FirstClickPrompts ==
    [][(measuring /\ Len(markers) = 0 /\ ClickedHit')
        => /\ Len(markers') = 1
           /\ markers'[1].intersection = lastOp'.aim[1]
           /\ emitted' = <<SelectAnotherPoint>>]_vars

C4_Witness ==
    /\ ClickedHit
    /\ Len(markers) = 1
    /\ markers[1].intersection = lastOp.aim[1]
    /\ emitted = <<SelectAnotherPoint>>

\* C5: after start(), whatever the state it was called in, the session is
\* active with no confirmed marker and a hover marker, and exactly one
\* readout was emitted, the prompt "Select a point".
C5_StartGivesActiveEmpty ==
    lastOp.op = "start"
        => /\ measuring
           /\ markers = <<>>
           /\ hoverMarker # None
           /\ hoverMarker[1].obj \in scene
           /\ emitted = <<SelectAPoint>>

\* start() has been called on a session that was active with 2 markers.
C5_Witness ==
    /\ lastOp.op = "start"
    /\ peakMarkers = 2
    /\ Orphans # {}

\* C6: stop() called on an active session leaves it not active, with no
\* confirmed marker and no hover marker, and emits no readout.
C6_StopGivesIdle ==
    [][(measuring /\ lastOp'.op = "stop")
        => /\ ~measuring'
           /\ markers' = <<>>
           /\ hoverMarker' = None
           /\ emitted' = <<>>]_vars

\* stop() has been called on a session with 2 confirmed markers.
C6_Witness ==
    /\ lastOp.op = "stop"
    /\ peakMarkers = 2
    /\ ~measuring

\* The objects in the scene that the session created.
SessionVisuals == {o \in scene : o.kind \in {"marker", "hover", "line"}}

\* C7: after stop() returns, whatever came before it, the scene holds no
\* visual object created by the session.
C7_StopLeavesNoVisual == lastOp.op = "stop" => SessionVisuals = {}

\* The fields of the session apart from the readouts it emits.
sessionFields == <<measuring, markers, hoverMarker, measurementLine, scene>>

\* C8: a click on an active session whose ray misses every mesh of the
\* pickable list changes no field of the session and emits no readout.
C8_MissedClickChangesNothing ==
    [][(measuring /\ lastOp'.op = "onClick" /\ lastOp'.aim = None)
        => /\ UNCHANGED sessionFields
           /\ emitted' = <<>>]_vars

\* A click has missed on a session holding 2 markers and their line.
C8_Witness ==
    /\ lastOp.op = "onClick"
    /\ lastOp.aim = None
    /\ measuring
    /\ Len(markers) = 2
    /\ measurementLine # None

\* C9: while the session is not active, onMouseMove, onClick and update
\* change no field of the session and emit no readout.
C9_InactiveCallsChangeNothing ==
    [][(~measuring /\ lastOp'.op \in {"onMouseMove", "onClick", "update"})
        => /\ UNCHANGED sessionFields
           /\ emitted' = <<>>]_vars

\* A click whose ray would hit a face of the model, on an inactive session.
C9_Witness ==
    /\ ~measuring
    /\ ClickedHit
    /\ markers = <<>>
    /\ emitted = <<>>

\* C10: in every readout computed from 2 markers, parallelFacesDistance is
\* present exactly when facesAngle < 0.01 or facesAngle > pi - 0.01; for
\* perpendicular faces it is absent.
C10_ParallelDistancePresence ==
    \A i \in 1..Len(emitted) :
        LET v == emitted[i].values
        IN  v.facesAngle # None
                => /\ (v.parallelFacesDistance # None)
                        <=> (v.facesAngle[1] < Eps \/ v.facesAngle[1] > Pi - Eps)
                   /\ v.facesAngle[1] = HalfPi => v.parallelFacesDistance = None

\* A readout for two perpendicular faces, without a parallel distance.
C10_Witness ==
    /\ Len(emitted) = 1
    /\ emitted[1].count = 2
    /\ emitted[1].values.facesAngle = Some(HalfPi)
    /\ emitted[1].values.parallelFacesDistance = None

\* The readouts of the last operation that carry a computed measurement.
Measurements ==
    {emitted[i].values : i \in {j \in 1..Len(emitted) :
                                    emitted[j].values.facesAngle # None}}

\* Point A and point B of the measurement, and the world normal at A.
PointA == markers[1].intersection.point
PointB == markers[2].intersection.point
NormalA == GetFaceNormal(markers[1].intersection)

\* C11: a parallel distance that is reported is the distance from the
\* second-clicked point to the plane through the first-clicked point with the
\* first point's normal, to the resolution of a coordinate, and it does not
\* exceed pointsDistance; opposite walls 10 units apart give 10.
C11_ParallelDistanceIsPlaneDistance ==
    \A v \in Measurements :
        (Len(markers) = 2 /\ v.parallelFacesDistance # None)
            => /\ v.parallelFacesDistance[1] >= 0
               /\ Abs(v.parallelFacesDistance[1] * Scale
                      - Abs(Dot(Sub(PointB, PointA), NormalA))) < Scale
               /\ v.parallelFacesDistance[1] <= v.pointsDistance[1]
               /\ (PointA = <<100, 30, 0>> /\ PointB = <<0, 0, 0>>)
                      => v.parallelFacesDistance[1] = 100

\* Opposite walls 10 units apart: A on the wall x = 10, B on the wall x = 0.
C11_Witness ==
    /\ Len(markers) = 2
    /\ PointA = <<100, 30, 0>>
    /\ PointB = <<0, 0, 0>>
    /\ \E v \in Measurements :
           /\ v.facesAngle = Some(Pi)
           /\ v.parallelFacesDistance = Some(100)
           /\ v.pointsDistance[1] >= 100

\* C12: every facesAngle emitted is a number in [0, pi].
C12_AngleInRange ==
    \A v \in Measurements : v.facesAngle[1] \in 0..Pi

\* Readouts for identical normals (the same face picked twice).
C12_Witness ==
    /\ Len(markers) = 2
    /\ markers[1].intersection.normal = <<1000, 5, 0>>
    /\ markers[2].intersection.normal = <<1000, 5, 0>>
    /\ \E v \in Measurements : v.facesAngle = Some(0)

\* Two markers are confirmed and at least one has no face data.
DegenerateMarkers ==
    /\ Len(markers) = 2
    /\ ~markers[1].intersection.face \/ ~markers[2].intersection.face

InvalidMeasurement == [values |-> Prompt("Invalid measurement"), count |-> 2]

\* C13: when the measurement is computed from two markers of which one has
\* no face data, the readout is the message "Invalid measurement" with every
\* numeric field absent, and the session is left as it was, active.
C13_FacelessGivesInvalidMeasurement ==
    [][(measuring /\ DegenerateMarkers /\ lastOp'.op = "update")
        => /\ emitted' = <<InvalidMeasurement>>
           /\ measuring'
           /\ UNCHANGED sessionFields]_vars

C13_Witness ==
    /\ lastOp.op = "update"
    /\ measuring
    /\ DegenerateMarkers
    /\ emitted = <<InvalidMeasurement>>

\* C14: every confirmed marker is bound to a hit, with face data, on a mesh
\* of the model, and the marker a click has just confirmed is bound to the
\* first such hit of its ray, whatever else the ray met before it.
C14_MarkersOnlyOnPickableMeshes ==
    /\ \A i \in 1..Len(markers) :
           /\ markers[i].intersection.object \in Meshes
           /\ markers[i].intersection.face
           /\ markers[i].intersection \in MeshFaceHits
    /\ (lastOp.op = "onClick" /\ lastOp.aim # None /\ Len(markers) > 0)
           => markers[Len(markers)].intersection = lastOp.aim[1]

\* A click has confirmed a point on the model through a nearer object that
\* is not part of the model.
C14_Witness ==
    /\ lastOp.op = "onClick"
    /\ lastOp.behind
    /\ lastOp.aim # None
    /\ Len(markers) = 2
    /\ markers[2].intersection = lastOp.aim[1]
    /\ markers[2].intersection.object \in Meshes

\* C15: onMouseMove on an active session leaves the confirmed markers, the
\* measurement line, the active flag and the scene as they were and emits no
\* readout; the hover marker is shown at the hit when the ray resolves to a
\* hit with face data, and is hidden, where it was, when it does not.
C15_PointerMoveOnlyMovesHover ==
    [][(measuring /\ hoverMarker # None /\ lastOp'.op = "onMouseMove")
        => /\ UNCHANGED <<measuring, markers, measurementLine, scene>>
           /\ emitted' = <<>>
           /\ hoverMarker' # None
           /\ hoverMarker'[1].obj = hoverMarker[1].obj
           /\ IF lastOp'.aim # None
              THEN /\ hoverMarker'[1].visible
                   /\ hoverMarker'[1].intersection = lastOp'.aim[1]
                   /\ lastOp'.aim[1].face
              ELSE /\ ~hoverMarker'[1].visible
                   /\ hoverMarker'[1].intersection = hoverMarker[1].intersection]_vars

\* The pointer has moved off every surface while 2 markers are confirmed:
\* the hover marker is hidden and the pair is still there.
C15_Witness ==
    /\ lastOp.op = "onMouseMove"
    /\ lastOp.aim = None
    /\ measuring
    /\ Len(markers) = 2
    /\ measurementLine # None
    /\ hoverMarker # None
    /\ ~hoverMarker[1].visible
    /\ hoverMarker[1].intersection \in MeshFaceHits

\* The hover-marker visuals the scene holds.
HoverVisuals == {o \in scene : o.kind = "hover"}

\* C16: the scene holds one hover-marker visual while the session is active
\* and none while it is not, whatever calls of start and stop came before.
C16_OneHoverVisualIffActive ==
    Cardinality(HoverVisuals) = (IF measuring THEN 1 ELSE 0)

\* The world normal at point B.
NormalB == GetFaceNormal(markers[2].intersection)

\* The measurement between the two confirmed markers, from the definitions
\* of its quantities.
MeasurementOfMarkers ==
    Values(Some(DistanceTo(PointA, PointB)),
           IF IsParallel(AngleTo(NormalA, NormalB))
           THEN Some(Abs(PlaneDistanceToPoint(NormalA, PointA, PointB)))
           ELSE None,
           Some(AngleTo(NormalA, NormalB)), NoMessage)

\* C17: update() on an active session emits exactly one readout, the
\* measurement between the two confirmed markers, when 2 markers are
\* confirmed, and no readout when 0 or 1 are; it changes no field.
C17_UpdateReemitsOnlyWithTwoMarkers ==
    [][(measuring /\ lastOp'.op = "update")
        => /\ UNCHANGED sessionFields
           /\ emitted' = IF Len(markers) = 2
                         THEN <<[values |-> MeasurementOfMarkers, count |-> 2]>>
                         ELSE <<>>]_vars

\* update() has re-emitted the measurement of a confirmed pair whose faces
\* are not parallel.
C17_Witness ==
    /\ lastOp.op = "update"
    /\ measuring
    /\ Len(markers) = 2
    /\ emitted = <<[values |-> MeasurementOfMarkers, count |-> 2]>>
    /\ emitted[1].values.parallelFacesDistance = None
    /\ emitted[1].values.pointsDistance # None

\* C18: every frame the STL viewer renders while measure mode is on includes
\* one call of update(): after a frame rendered with 2 confirmed markers the
\* callback has received the measurement of the pair.
C18_FrameCallsUpdate ==
    (lastOp.op = "animate" /\ measuring /\ Len(markers) = 2)
        => emitted = <<[values |-> MeasurementOfMarkers, count |-> 2]>>

\* C19: every call that changes the number of confirmed markers while the
\* session stays active hands the callback a readout, and the last readout
\* of the call describes the markers the call leaves.
C19_ReadoutOnEveryCountChange ==
    [][(measuring /\ measuring' /\ Len(markers') # Len(markers))
        => /\ emitted' # <<>>
           /\ emitted'[Len(emitted')].count = Len(markers')]_vars

\* A readout carries a numeric value.
HasNumber(v) ==
    v.pointsDistance # None \/ v.facesAngle # None
        \/ v.parallelFacesDistance # None

\* C20: every readout agrees with the number of confirmed markers at the
\* moment the callback receives it: numeric values only with 2 markers,
\* "Select a point" only with none, "Select another point" only with 1, and
\* never a message together with a numeric value.
C20_ReadoutAgreesWithMarkerCount ==
    \A i \in 1..Len(emitted) :
        LET v == emitted[i].values
            count == emitted[i].count
        IN  /\ (v.pointsDistance # None \/ v.facesAngle # None) => count = 2
            /\ v.message = "Select a point" => count = 0
            /\ v.message = "Select another point" => count = 1
            /\ ~(v.message # NoMessage /\ HasNumber(v))
            /\ v.message # NoMessage \/ HasNumber(v)

\* start() on a session holding a confirmed pair has sent "Select a point"
\* with no marker left.
C20_Witness ==
    /\ lastOp.op = "start"
    /\ peakMarkers = 2
    /\ markers = <<>>
    /\ emitted = <<SelectAPoint>>

\* C21: the readout of the second click carries the same pointsDistance as
\* the readout of the run that clicks the same two hits in the other order.
C21_PointsDistanceSymmetric ==
    (ClickedHit /\ Len(markers) = 2)
        => /\ Len(emitted) = 1
           /\ emitted[1].values.pointsDistance # None
           /\ emitted[1].values.pointsDistance
                  = ClickPair(markers[2].intersection,
                              markers[1].intersection).emitted[1].values.pointsDistance

\* Two different points have been clicked and their distance is not zero in
\* either order.
C21_Witness ==
    /\ ClickedHit
    /\ Len(markers) = 2
    /\ PointA = <<0, 0, 0>>
    /\ PointB = <<100, 30, 0>>
    /\ emitted[1].values.pointsDistance = Some(104)
    /\ ClickPair(markers[2].intersection,
                 markers[1].intersection).emitted[1].values.pointsDistance = Some(104)

\* What a click leaves apart from the hover marker: the active flag, the
\* confirmed markers, the line, the scene and the readouts.
ClickOutcome(s) ==
    <<s.measuring, s.markers, s.measurementLine, s.scene, s.emitted>>

\* The rays of a pointer move that stops on a face of the model or on
\* nothing.
HoverRays == {<<>>} \cup {<<a>> : a \in MeshFaceHits}

\* The model hits of a click: a face of the model, or nothing.
ClickTargets == {<<>>} \cup {<<b>> : b \in MeshFaceHits}

\* The ray of a click on the target, after pointer moves that left the hover
\* marker of session s where it is: its disc lies in front of the target.
ThroughHover(s, target) == <<DiscHit(s.hoverMarker[1])>> \o target

\* C22: from every state of an active session, the run that clicks at once
\* and the run that first moves the pointer and then clicks at the same
\* position, through the disc the move has put there, confirm the same
\* marker and emit the same readout.
C22_ClickIndependentOfHover ==
    (measuring /\ hoverMarker # None)
        => \A target \in ClickTargets :
               LET direct == ClickOutcome(OnClickCall(This, target, Meshes))
               IN  \A move \in HoverRays :
                       LET moved == NextCall(OnMouseMoveCall(This, move))
                       IN  ClickOutcome(OnClickCall(moved,
                                   ThroughHover(moved, target), Meshes)) = direct

\* The pointer has moved onto a face of the model while 1 marker is
\* confirmed, and a click on another face, through the hover disc, confirms
\* the face clicked and not the face hovered.
C22_Witness ==
    /\ lastOp.op = "onMouseMove"
    /\ lastOp.aim # None
    /\ measuring
    /\ Len(markers) = 1
    /\ hoverMarker # None
    /\ hoverMarker[1].visible
    /\ hoverMarker[1].intersection.point = <<50, 50, 0>>
    /\ LET target == Hit(<<100, 0, 40>>, <<1000, 5, 0>>, Mesh(2), TRUE)
           after == OnClickCall(This, ThroughHover(This, <<target>>), Meshes)
       IN  /\ Len(after.markers) = 2
           /\ after.markers[2].intersection = target
           /\ IsMeasurement(after.emitted[1].values)

\* C23: the measurement depends only on the two hits as captured by the
\* clicks: an update() that follows a readout of the confirmed pair emits
\* that readout again, whether or not the model has been turned in between.
C23_UpdateRepeatsClickReadout ==
    [][(/\ measuring
        /\ Len(markers) = 2
        /\ emitted # <<>>
        /\ emitted[Len(emitted)].count = 2
        /\ lastOp'.op = "update")
        => emitted' = <<emitted[Len(emitted)]>>]_vars

\* C24: at no step of a call does the confirmed-marker sequence hold a third
\* marker.
C24_NoThirdMarkerAtAnyStep == peakMarkers <= 2

\* C25: in the STL viewer, whenever measuringActive is true the current
\* session has been started and the listeners are attached to the current
\* renderer's canvas.
C25_ActiveViewerHasStartedSession ==
    viewer.measuringActive => (measuring /\ viewer.listeners = "current")

\* C26: for every readout with numeric pointsDistance and facesAngle, the
\* update the STL viewer forwards has a length equal to pointsDistance and
\* an angle equal to facesAngle in degrees, zero included.
C26_ForwardedUpdateKeepsValues ==
    \A i \in 1..Len(emitted) :
        LET data == emitted[i].values
        IN  (data.pointsDistance # None /\ data.facesAngle # None)
                => /\ ForwardedUpdate(data).length = data.pointsDistance
                   /\ ForwardedUpdate(data).angle
                          = Some(ToDegrees(data.facesAngle[1]))

\* C27: through the public operations no readout says "Invalid
\* measurement": both markers of a confirmed pair have face data, and a
\* readout delivered with 2 markers confirmed is numeric.
C27_NeverInvalidMeasurement ==
    /\ \A i \in 1..Len(emitted) :
           /\ emitted[i].values.message # "Invalid measurement"
           /\ emitted[i].count = 2 => IsMeasurement(emitted[i].values)
    /\ \A i \in 1..Len(markers) : markers[i].intersection.face

\* The second click went through something without face data in front of
\* the model, and its readout is numeric.
C27_Witness ==
    /\ ClickedHit
    /\ lastOp.behind
    /\ Len(markers) = 2
    /\ Len(emitted) = 1
    /\ emitted[1].count = 2
    /\ IsMeasurement(emitted[1].values)
    /\ emitted[1].values.message = NoMessage

\* C28: while the session is active a visible hover marker means that a
\* pointer move since the last start() resolved a hit: the hover marker is
\* not visible when start() returns, nor after a pointer move that resolved
\* no hit.
C28_HoverVisibleOnlyAfterHit ==
    (measuring /\ hoverMarker # None /\ hoverMarker[1].visible)
        => /\ lastOp.op # "start"
           /\ lastOp.op = "onMouseMove" => lastOp.aim # None

\* C29: the hover marker is never positioned on a hit of its own disc or of
\* a confirmed marker's disc.
C29_HoverNeverOnSessionDisc ==
    hoverMarker # None
        => hoverMarker[1].intersection.object.kind \notin {"hover", "marker"}

\* The marker visuals and the line visuals the scene holds.
MarkerVisuals == {o \in scene : o.kind = "marker"}
LineVisuals == {o \in scene : o.kind = "line"}

\* C30: after every operation the scene holds exactly the visuals of the
\* confirmed markers, one each, and it holds a measurement line, the one
\* from point A to point B, if and only if 2 markers are confirmed.
C30_SceneMirrorsConfirmedState ==
    /\ MarkerVisuals = {markers[i].obj : i \in 1..Len(markers)}
    /\ Cardinality(MarkerVisuals) = Len(markers)
    /\ IF Len(markers) = 2
       THEN /\ measurementLine # None
            /\ LineVisuals = {measurementLine[1].obj}
            /\ measurementLine[1].from = PointA
            /\ measurementLine[1].to = PointB
       ELSE /\ measurementLine = None
            /\ LineVisuals = {}

\* clear() was called on a confirmed pair: no marker and no line is left in
\* the session or in the scene.
C30_Witness ==
    /\ lastOp.op = "clear"
    /\ peakMarkers = 2
    /\ measuring
    /\ markers = <<>>
    /\ MarkerVisuals = {}
    /\ LineVisuals = {}

====
